---- MODULE Spec2Model ----
(***************************************************************************)
(* Model of css_combine.py: the CSS data model (CssSelector, CssProperty,  *)
(* CssRule, CssData), the sheet algebra of CssSheet (&, -, |, +,           *)
(* from_sheet) and combine_themes, the character-stream state machine of   *)
(* CssParser, and the serializers output_sheet and output_vars.            *)
(*                                                                         *)
(* Python objects are mutable and shared by reference, so the model keeps  *)
(* an object heap: every CssProperty, CssRule and CssSheet is a heap cell  *)
(* named by its index, a rule holds the indices of its properties and a    *)
(* sheet the indices of its rules.  A CssSelector is never mutated and is  *)
(* compared by value (dataclass equality), so a selector is its name and a *)
(* selector-list is a sequence of names.                                   *)
(***************************************************************************)
EXTENDS Integers, Sequences, FiniteSets, TLC

(* ---------------- bounds of the checked instances ---------------------- *)

\* Most rules in one operand sheet.
MaxRules == 2
\* Most properties in the two operand sheets together.
MaxProps == 3

(* ---------------- the alphabet of the operand sheets ------------------- *)

SelectorLists == { <<".a">>, <<".a", ".b">> }
PropNames == { "k", "m" }
PropValues == { "1", "2" }

\* Python's None, for from_sheet's overwrite_values.
None == "<None>"
\* The literal combine_themes passes to from_sheet (lines 650-651).
Unset == "unset"

(* ---------------- sheets as values ------------------------------------- *)

SeqUpTo(S, n) == UNION { [1..k -> S] : k \in 0..n }

PropertyValues == [name : PropNames, value : PropValues]

RECURSIVE Sum(_)
Sum(c) == IF c = <<>> THEN 0 ELSE Head(c) + Sum(Tail(c))

\* The sheet of rules with selector-lists sel[i] and cnt[i] properties each,
\* the properties taken in order from flat.
MakeSheet(sel, cnt, flat) ==
    [i \in 1..Len(sel) |->
        [selectors |-> sel[i],
         properties |-> SubSeq(flat, Sum(SubSeq(cnt, 1, i - 1)) + 1, Sum(SubSeq(cnt, 1, i)))]]

\* Every sheet of at most MaxRules rules and exactly n properties.
SheetsOf(n) ==
    UNION { { MakeSheet(sel, cnt, flat) :
                sel \in [1..Len(cnt) -> SelectorLists], flat \in [1..n -> PropertyValues] } :
            cnt \in { c \in SeqUpTo(0..n, MaxRules) : Sum(c) = n } }

(* ---------------- state ------------------------------------------------ *)

VARIABLES
    props,      \* heap of CssProperty objects: index -> [name, value]
    rules,      \* heap of CssRule objects: index -> [selectors, properties]
    sheets,     \* heap of CssSheet objects: index -> its rules list
    in_a, in_b, \* the contents the two operand sheets were built from
    sheet_a,    \* the left operand (self; sheet_in_l of combine_themes)
    sheet_b,    \* the right operand (other; sheet_in_d of combine_themes)
    call,       \* the operation that was called, "" before any call
    arg,        \* from_sheet's overwrite_values argument
    ret,        \* the sheet(s) the call returned, <<>> if it raised
    raised,     \* the call raised ValueError
    frame,      \* the local sheets of combine_themes when it ended
    parser,     \* the fields of the CssParser object
    lists,      \* heap of the list objects the parser makes: index -> contents
    css_str,    \* the text given to parse, a sequence of characters
    comment,    \* where a comment was put in css_str: <<first, last>> or <<0, 0>>
    it,         \* how many characters the iterator of parse has handed out
    pc,         \* "idle", "loop" inside parse, "returned" or "raised"
    parsed,     \* the list of rules of the sheet parse returned, 0 before
    calls,      \* how many times parse was called on the parser
    threads,    \* the call each thread runs and where it is, <<>> without threads
    parsers     \* heap of the CssParser objects the threads make

avars == <<props, rules, sheets, in_a, in_b, sheet_a, sheet_b, call, arg, ret, raised, frame>>
tvars == <<threads, parsers>>
pvars == <<parser, lists, css_str, comment, it, pc, parsed, calls, tvars>>
vars == <<avars, pvars>>

Heap == [props |-> props, rules |-> rules, sheets |-> sheets]

(* ---------------- CssData ---------------------------------------------- *)

\* CssSheet(): a new sheet object with an empty rules list.
CssData_init(h) ==
    [h |-> [h EXCEPT !.sheets = Append(@, <<>>)], id |-> Len(h.sheets) + 1]

\* has_property that never compares the value (compare_value ignored).
has_property_by_name(h, self, selectors, prop, compare_value) ==
    \E i \in 1..Len(h.sheets[self]) :
        LET rule == h.rules[h.sheets[self][i]] IN
        /\ rule.selectors = selectors
        /\ \E j \in 1..Len(rule.properties) :
              h.props[rule.properties[j]].name = prop.name

\* The nested loops return True at the first match, False after the scan.
has_property(h, self, selectors, prop, compare_value) ==
    \E i \in 1..Len(h.sheets[self]) :
        LET rule == h.rules[h.sheets[self][i]] IN
        /\ rule.selectors = selectors
        /\ \E j \in 1..Len(rule.properties) :
              LET this_prop == h.props[rule.properties[j]] IN
              /\ this_prop.name = prop.name
              /\ (compare_value => this_prop.value = prop.value)

Least(S) == CHOOSE x \in S : \A y \in S : x <= y

\* append_property that never finds a rule with the selectors (line 183
\* never true) and always appends a new rule.
append_property_new_rule(h, self, selectors, prop) ==
    [h EXCEPT !.rules = Append(@, [selectors |-> selectors, properties |-> <<prop>>]),
              !.sheets[self] = Append(@, Len(h.rules) + 1)]

\* prop is the index of a CssProperty object: the object itself is appended.
append_property(h, self, selectors, prop) ==
    LET rs == h.sheets[self]
        hits == { i \in 1..Len(rs) : h.rules[rs[i]].selectors = selectors }
    IN  IF hits # {}
        THEN [h EXCEPT !.rules[rs[Least(hits)]].properties = Append(@, prop)]
        ELSE [h EXCEPT !.rules = Append(@, [selectors |-> selectors, properties |-> <<prop>>]),
                       !.sheets[self] = Append(@, Len(h.rules) + 1)]

(* ---------------- CssSheet --------------------------------------------- *)

\* copy.deepcopy(sheet.rules), rule by rule: new CssRule and CssProperty
\* objects with the same contents.  No object occurs twice in one sheet
\* (NoSharingInSheet), so deepcopy's memo never answers.
RECURSIVE deepcopy_rules(_, _, _, _)
deepcopy_rules(h, src, dst, i) ==
    IF i > Len(h.sheets[src]) THEN h
    ELSE LET rule == h.rules[h.sheets[src][i]]
             n == Len(rule.properties)
             copies == [k \in 1..n |-> h.props[rule.properties[k]]]
             ids == [k \in 1..n |-> Len(h.props) + k]
         IN  deepcopy_rules(
                 [h EXCEPT !.props = @ \o copies,
                           !.rules = Append(@, [selectors |-> rule.selectors, properties |-> ids]),
                           !.sheets[dst] = Append(@, Len(h.rules) + 1)],
                 src, dst, i + 1)

PropsOf(h, sheet) ==
    { h.rules[h.sheets[sheet][i]].properties[j] :
        <<i, j>> \in { ij \in (1..Len(h.sheets[sheet])) \X (1..Len(h.props)) :
                         ij[2] <= Len(h.rules[h.sheets[sheet][ij[1]]].properties) } }

\* from_sheet without the deepcopy: the new sheet's list holds the rule
\* objects of the sheet it was made from.
from_sheet_shallow(h, sheet, overwrite_values) ==
    LET new == CssData_init(h)
        h1 == [new.h EXCEPT !.sheets[new.id] = h.sheets[sheet]]
        mine == PropsOf(h1, new.id)
        h2 == IF overwrite_values # None
              THEN [h1 EXCEPT !.props = [p \in DOMAIN @ |->
                        IF p \in mine THEN [@[p] EXCEPT !.value = overwrite_values] ELSE @[p]]]
              ELSE h1
    IN  [h |-> h2, ret |-> new.id]

\* from_sheet that forgets to overwrite the values.
from_sheet_no_overwrite(h, sheet, overwrite_values) ==
    LET new == CssData_init(h)
    IN  [h |-> deepcopy_rules(new.h, sheet, new.id, 1), ret |-> new.id]

from_sheet(h, sheet, overwrite_values) ==
    LET new == CssData_init(h)
        h1 == deepcopy_rules(new.h, sheet, new.id, 1)
        mine == PropsOf(h1, new.id)
        h2 == IF overwrite_values # None
              THEN [h1 EXCEPT !.props = [p \in DOMAIN @ |->
                        IF p \in mine THEN [@[p] EXCEPT !.value = overwrite_values] ELSE @[p]]]
              ELSE h1
    IN  [h |-> h2, ret |-> new.id]

\* self & other: the loops of lines 554-557 over the live lists.
RECURSIVE and_loop(_, _, _, _, _, _)
and_loop(h, self, other, new_sheet, i, j) ==
    IF i > Len(h.sheets[self]) THEN h
    ELSE LET rule == h.rules[h.sheets[self][i]] IN
         IF j > Len(rule.properties) THEN and_loop(h, self, other, new_sheet, i + 1, 1)
         ELSE LET prop == rule.properties[j] IN
              and_loop(
                  IF has_property(h, other, rule.selectors, h.props[prop], TRUE)
                  THEN append_property(h, new_sheet, rule.selectors, prop)
                  ELSE h,
                  self, other, new_sheet, i, j + 1)

__and__(h, self, other) ==
    LET new == CssData_init(h)
    IN  [h |-> and_loop(new.h, self, other, new.id, 1, 1), ret |-> new.id]

\* self - other: the loops of lines 575-580.
RECURSIVE sub_loop(_, _, _, _, _, _)
sub_loop(h, self, other, new_sheet, i, j) ==
    IF i > Len(h.sheets[self]) THEN h
    ELSE LET rule == h.rules[h.sheets[self][i]] IN
         IF j > Len(rule.properties) THEN sub_loop(h, self, other, new_sheet, i + 1, 1)
         ELSE LET prop == rule.properties[j] IN
              sub_loop(
                  IF has_property(h, other, rule.selectors, h.props[prop], TRUE)
                  THEN h
                  ELSE append_property(h, new_sheet, rule.selectors, prop),
                  self, other, new_sheet, i, j + 1)

\* self - other with the test of line 577 inverted.
__sub__inverted(h, self, other) ==
    LET new == CssData_init(h)
    IN  [h |-> and_loop(new.h, self, other, new.id, 1, 1), ret |-> new.id]

__sub__(h, self, other) ==
    LET new == CssData_init(h)
    IN  [h |-> sub_loop(new.h, self, other, new.id, 1, 1), ret |-> new.id]

\* The loops of lines 601-614; the result says whether ValueError was raised,
\* and the heap is the heap at that moment.
RECURSIVE or_add_loop(_, _, _, _, _, _)
or_add_loop(h, self, new_sheet, overwrite_with_other, i, j) ==
    IF i > Len(h.sheets[self]) THEN [h |-> h, raised |-> FALSE]
    ELSE LET rule == h.rules[h.sheets[self][i]] IN
         IF j > Len(rule.properties)
         THEN or_add_loop(h, self, new_sheet, overwrite_with_other, i + 1, 1)
         ELSE LET prop == rule.properties[j] IN
              IF has_property(h, new_sheet, rule.selectors, h.props[prop], FALSE)
              THEN IF overwrite_with_other
                   THEN or_add_loop(h, self, new_sheet, overwrite_with_other, i, j + 1)
                   ELSE [h |-> h, raised |-> TRUE]
              ELSE or_add_loop(append_property(h, new_sheet, rule.selectors, prop),
                               self, new_sheet, overwrite_with_other, i, j + 1)

\* ret is 0 when the call raised.
_or_add(h, self, other, overwrite_with_other) ==
    LET new == from_sheet(h, other, None)
        done == or_add_loop(new.h, self, new.ret, overwrite_with_other, 1, 1)
    IN  [h |-> done.h, ret |-> IF done.raised THEN 0 ELSE new.ret, raised |-> done.raised]

\* self | other that starts from a copy of self and appends other's pairs.
__or__from_self(h, self, other) == _or_add(h, other, self, FALSE)

__or__(h, self, other) == _or_add(h, self, other, FALSE)

\* self + other that stops after copying other (the loops of lines 601-614
\* skipped).
__add__copy_only(h, self, other) ==
    LET new == from_sheet(h, other, None)
    IN  [h |-> new.h, ret |-> new.ret, raised |-> FALSE]

\* self + other in which self, not other, takes precedence.
__add__self_wins(h, self, other) == _or_add(h, other, self, TRUE)

__add__(h, self, other) == _or_add(h, self, other, TRUE)

(* ---------------- CssParser -------------------------------------------- *)

(***************************************************************************)
(* A text is a sequence of one-character strings.  The parser object and   *)
(* the lists it makes travel together as o = [self, lists]: self holds the *)
(* fields, and self.selectors, self.properties and self.new_sheet name     *)
(* list objects, because css_rule_finish puts the parser's own lists into  *)
(* the rule it appends.  A list of selectors holds names, a list of        *)
(* properties holds [name, value], a sheet's list holds rules, each        *)
(* [selectors, properties] naming two lists.                               *)
(***************************************************************************)

\* The characters the parser skips (lines 336, 354, 362, 387).
Blank == { " ", "\n" }
\* The characters str.rstrip() removes, among those of the model's texts.
Whitespace == { " ", "\n", "\t" }

RECURSIVE rstrip(_)
rstrip(s) ==
    IF s # <<>> /\ s[Len(s)] \in Whitespace THEN rstrip(SubSeq(s, 1, Len(s) - 1)) ELSE s

state_change(o, new_state) == [o EXCEPT !.self.state = new_state]

css_selector_reset(o) == [o EXCEPT !.self.selector_name = <<>>]

css_selector_name_grow(o, c) == [o EXCEPT !.self.selector_name = Append(@, c)]

\* css_selector_finish without its css_selector_reset.
css_selector_finish_no_reset(o) ==
    [o EXCEPT !.lists[o.self.selectors] = Append(@, o.self.selector_name)]

css_selector_finish(o) ==
    css_selector_reset([o EXCEPT !.lists[o.self.selectors] = Append(@, o.self.selector_name)])

css_property_reset(o) == [o EXCEPT !.self.prop_name = <<>>, !.self.prop_value = <<>>]

\* css_property_name_grow that drops the character.
css_property_name_grow_dropped(o, c) == o

css_property_name_grow(o, c) == [o EXCEPT !.self.prop_name = Append(@, c)]

css_property_value_grow(o, c) == [o EXCEPT !.self.prop_value = Append(@, c)]

\* css_property_finish that keeps the value as it was read.
css_property_finish_unstripped(o) ==
    css_property_reset(
        IF o.self.prop_name # <<>>
        THEN [o EXCEPT !.lists[o.self.properties] =
                  Append(@, [name |-> o.self.prop_name, value |-> o.self.prop_value])]
        ELSE o)

css_property_finish(o) ==
    css_property_reset(
        IF o.self.prop_name # <<>>
        THEN [o EXCEPT !.lists[o.self.properties] =
                  Append(@, [name |-> o.self.prop_name, value |-> rstrip(o.self.prop_value)])]
        ELSE o)

\* Two new, empty lists.
css_rule_reset(o) ==
    [o EXCEPT !.lists = @ \o << <<>>, <<>> >>,
              !.self.selectors = Len(o.lists) + 1,
              !.self.properties = Len(o.lists) + 2]

\* css_rule_finish without its css_rule_reset: the parser goes on with the
\* two lists it gave to the rule.
css_rule_finish_no_reset(o) ==
    [o EXCEPT !.lists[o.self.new_sheet] =
         Append(@, [selectors |-> o.self.selectors, properties |-> o.self.properties])]

\* The rule holds the parser's own two lists, not copies of them.
css_rule_finish(o) ==
    css_rule_reset(
        [o EXCEPT !.lists[o.self.new_sheet] =
             Append(@, [selectors |-> o.self.selectors, properties |-> o.self.properties])])

\* new_sheet is a new CssSheet, named by its (new, empty) list of rules.
_reset_everything(o) ==
    css_property_reset(css_rule_reset(css_selector_reset(
        [o EXCEPT !.self.state = "ROOT",
                  !.lists = Append(@, <<>>),
                  !.self.new_sheet = Len(o.lists) + 1])))

\* The fields before __init__ has set them.
NoParser == [state |-> "", new_sheet |-> 0, selector_name |-> <<>>, selectors |-> 0,
             prop_name |-> <<>>, prop_value |-> <<>>, properties |-> 0]

\* CssParser().
CssParser_init == _reset_everything([self |-> NoParser, lists |-> <<>>])

\* A comment that ends at any "*".
comment_ends_at_star(c, cn) == c = "*"

\* The test of lines 348 and 376: "*/" ends a comment.
comment_ends(c, cn) == c = "*" /\ cn = "/"

\* One turn of the while loop of parse (lines 335-401) for the character c
\* with the peeked character cn (None at the end of the text).  skip is 1
\* when the turn calls next(it) itself to drop the "/" of "*/".
loop_body(o, c, cn) ==
    LET state == o.self.state IN
    CASE state = "ROOT" ->
            IF c \in Blank THEN [o |-> o, skip |-> 0]
            ELSE IF c = "/" /\ cn = "*" THEN [o |-> state_change(o, "ROOT_COMMENT"), skip |-> 0]
            ELSE IF c = "{" THEN [o |-> state_change(o, "BLOCK"), skip |-> 0]
            ELSE [o |-> css_selector_name_grow(state_change(o, "SELECTOR"), c), skip |-> 0]
      [] state = "ROOT_COMMENT" ->
            IF comment_ends(c, cn) THEN [o |-> state_change(o, "ROOT"), skip |-> 1]
            ELSE [o |-> o, skip |-> 0]
      [] state = "SELECTOR" ->
            IF c \in Blank THEN [o |-> state_change(css_selector_finish(o), "ROOT"), skip |-> 0]
            ELSE [o |-> css_selector_name_grow(o, c), skip |-> 0]
      [] state = "BLOCK" ->
            IF c \in Blank THEN [o |-> o, skip |-> 0]
            ELSE IF c = "/" /\ cn = "*" THEN [o |-> state_change(o, "BLOCK_COMMENT"), skip |-> 0]
            ELSE IF c = "}"
                 THEN [o |-> state_change(css_property_reset(css_rule_finish(o)), "ROOT"),
                       skip |-> 0]
            ELSE [o |-> state_change(css_property_name_grow(o, c), "BLOCK_PROP_NAME"),
                  skip |-> 0]
      [] state = "BLOCK_COMMENT" ->
            IF comment_ends(c, cn) THEN [o |-> state_change(o, "BLOCK"), skip |-> 1]
            ELSE [o |-> o, skip |-> 0]
      [] state = "BLOCK_PROP_NAME" ->
            IF c = ":" THEN [o |-> state_change(o, "BLOCK_GAP"), skip |-> 0]
            ELSE [o |-> css_property_name_grow(o, c), skip |-> 0]
      [] state = "BLOCK_GAP" ->
            IF c \in Blank THEN [o |-> o, skip |-> 0]
            ELSE [o |-> state_change(css_property_value_grow(o, c), "BLOCK_PROP_VALUE"),
                  skip |-> 0]
      [] state = "BLOCK_PROP_VALUE" ->
            IF c = ";" THEN [o |-> state_change(css_property_finish(o), "BLOCK"), skip |-> 0]
            ELSE IF c = "}"
                 THEN [o |-> state_change(css_rule_finish(css_property_finish(o)), "ROOT"),
                       skip |-> 0]
            ELSE [o |-> css_property_value_grow(o, c), skip |-> 0]

\* The character the iterator hands out after n others, None when exhausted.
Peek(text, n) == IF n < Len(text) THEN text[n + 1] ELSE None

\* The while loop of parse from the n-th character on, to the end of the
\* text; next(it) of lines 349 and 377 finds a character whenever it is
\* called, as cn was "/" (ParseStep models the call that finds none).
RECURSIVE parse_loop(_, _, _)
parse_loop(o, text, n) ==
    IF n >= Len(text) THEN o
    ELSE CHOOSE done \in { parse_loop(turn.o, text, n + 1 + turn.skip) :
                             turn \in {loop_body(o, text[n + 1], Peek(text, n + 1))} } : TRUE

\* CssParser.parse on the parser o: the parser and lists when it returns;
\* the sheet returned is self.new_sheet.
parse(o, text) == parse_loop(_reset_everything(o), text, 0)

\* The contents of the sheet whose list of rules is the list named sheet.
SheetIn(ls, sheet) ==
    [i \in 1..Len(ls[sheet]) |->
        [selectors |-> ls[ls[sheet][i].selectors],
         properties |-> ls[ls[sheet][i].properties]]]

\* CssData.from_str: the contents of the sheet a new parser returns.
from_str(text) ==
    LET o == parse(CssParser_init, text) IN SheetIn(o.lists, o.self.new_sheet)

(* ---------------- CssSheet: output -------------------------------------- *)

\* None where the code expects a str, and where it expects a list of str:
\* no text and no list of texts is equal to them.
NoneStr == << "<None>" >>
NoneList == << << "<None>" >> >>

\* sep.join(parts), for texts as sequences of characters.
RECURSIVE join(_, _)
join(sep, parts) ==
    IF parts = <<>> THEN <<>>
    ELSE IF Len(parts) = 1 THEN parts[1]
    ELSE parts[1] \o sep \o join(sep, Tail(parts))

\* name.lstrip("."): the name without the dots it begins with.
RECURSIVE lstrip(_)
lstrip(name) == IF name # <<>> /\ name[1] = "." THEN lstrip(Tail(name)) ELSE name

\* A selector is modelled by its name.
selectors_name_combined(selectors) ==
    join(<<"-">>, [i \in 1..Len(selectors) |-> lstrip(selectors[i])])

\* What an f-string writes for a str or None.
format(x) == IF x = NoneStr THEN <<"N", "o", "n", "e">> ELSE x

\* var_name that never wraps the name in var().
var_name_bare(prefix, selectors_name, prop_name, in_var) ==
    <<"-", "-">> \o format(prefix) \o <<"-">> \o selectors_name \o <<"-">> \o prop_name

var_name(prefix, selectors_name, prop_name, in_var) ==
    LET name == <<"-", "-">> \o format(prefix) \o <<"-">> \o selectors_name
                    \o <<"-">> \o prop_name
    IN  IF in_var THEN <<"v", "a", "r", "(">> \o name \o <<")">> ELSE name

\* The helper p2v of output_sheet, its nonlocal names as parameters.
p2v(prop, prefix, as_template, template_values, selectors_name) ==
    IF as_template
    THEN IF template_values = NoneList
         THEN var_name(prefix, selectors_name, prop.name, TRUE)
         ELSE IF \E i \in 1..Len(template_values) : template_values[i] = prop.value
              THEN var_name(prefix, selectors_name, prop.name, TRUE)
              ELSE prop.value
    ELSE prop.value

\* output_sheet of the sheet whose rules have the contents self_rules:
\* raises, or returns the text out.
output_sheet(self_rules, prefix, as_template, template_values) ==
    IF template_values # NoneList /\ prefix = NoneStr
    THEN [raised |-> TRUE, out |-> <<>>]
    ELSE [raised |-> FALSE,
          out |-> join(<<>>,
              [i \in 1..Len(self_rules) |->
                  LET rule == self_rules[i]
                      selectors_name == selectors_name_combined(rule.selectors)
                  IN  join(<<" ">>, rule.selectors)
                      \o <<" ", "{", " ">>
                      \o join(<<";", " ">>,
                           [j \in 1..Len(rule.properties) |->
                               rule.properties[j].name \o <<":", " ">>
                               \o p2v(rule.properties[j], prefix, as_template,
                                      template_values, selectors_name)])
                      \o <<" ", "}", "\n">>])]

\* output_vars of the sheet whose rules have the contents self_rules.
output_vars(self_rules, prefix, prefers_color_scheme) ==
    IF prefix = NoneStr
    THEN [raised |-> TRUE, out |-> <<>>]
    ELSE LET top == prefers_color_scheme = NoneStr
             indent == IF top THEN <<" ", " ">> ELSE <<" ", " ", " ", " ">>
             root == <<":", "r", "o", "o", "t", " ", "{", "\n">>
             media == <<"@", "m", "e", "d", "i", "a", " ", "(", "p", "r", "e", "f", "e", "r",
                        "s", "-", "c", "o", "l", "o", "r", "-", "s", "c", "h", "e", "m", "e",
                        ":", " ">>
             head == IF top THEN root
                     ELSE media \o format(prefers_color_scheme) \o <<")", " ", "{", "\n">>
                          \o <<" ", " ">> \o root
             foot == IF top THEN <<"}", "\n">> ELSE <<" ", " ", "}", "\n", "}", "\n">>
             body == join(<<>>,
                 [i \in 1..Len(self_rules) |->
                     LET rule == self_rules[i]
                         selectors_name == selectors_name_combined(rule.selectors)
                     IN  join(<<>>,
                             [j \in 1..Len(rule.properties) |->
                                 indent
                                 \o var_name(prefix, selectors_name,
                                             rule.properties[j].name, FALSE)
                                 \o <<":", " ">> \o rule.properties[j].value
                                 \o <<";", "\n">>])])
         IN  [raised |-> FALSE, out |-> head \o body \o foot]

(* ---------------- the operand sheets ----------------------------------- *)

\* A sheet built from scratch, as the parser builds one: one new CssRule per
\* rule and one new CssProperty per declaration.
RECURSIVE build_rules(_, _, _, _)
build_rules(h, dst, value, i) ==
    IF i > Len(value) THEN h
    ELSE LET n == Len(value[i].properties)
             ids == [k \in 1..n |-> Len(h.props) + k]
         IN  build_rules(
                 [h EXCEPT !.props = @ \o value[i].properties,
                           !.rules = Append(@, [selectors |-> value[i].selectors, properties |-> ids]),
                           !.sheets[dst] = Append(@, Len(h.rules) + 1)],
                 dst, value, i + 1)

build_sheet(h, value) ==
    LET new == CssData_init(h)
    IN  [h |-> build_rules(new.h, new.id, value, 1), ret |-> new.id]

EmptyHeap == [props |-> <<>>, rules |-> <<>>, sheets |-> <<>>]

NoFrame == [sheet_in_both |-> 0, sheet_unique_l |-> 0, sheet_unique_d |-> 0,
            sheet_unset_l |-> 0, sheet_unset_d |-> 0, sheet_unset_both |-> 0,
            sheet_vars_l |-> 0, sheet_vars_d |-> 0, combined |-> 0]

(* ---------------- the state machine ------------------------------------ *)

\* A parser that was constructed and not used: the state of the parser
\* while the sheet operations run.
ParserIdle ==
    /\ parser = CssParser_init.self
    /\ lists = CssParser_init.lists
    /\ css_str = <<>>
    /\ comment = <<0, 0>>
    /\ it = 0
    /\ pc = "idle"
    /\ parsed = 0
    /\ calls = 0
    /\ threads = <<>>
    /\ parsers = <<>>

Init ==
    \E na \in 0..MaxProps : \E nb \in 0..(MaxProps - na) :
    \E va \in SheetsOf(na) : \E vb \in SheetsOf(nb) :
        LET a == build_sheet(EmptyHeap, va)
            b == build_sheet(a.h, vb)
        IN  /\ in_a = va
            /\ in_b = vb
            /\ props = b.h.props
            /\ rules = b.h.rules
            /\ sheets = b.h.sheets
            /\ sheet_a = a.ret
            /\ sheet_b = b.ret
            /\ call = ""
            /\ arg = None
            /\ ret = <<>>
            /\ raised = FALSE
            /\ frame = NoFrame
            /\ ParserIdle

\* What every call leaves behind: the heap, the result, the operands' names.
Return(name, r, isRaised, overwrite, f) ==
    /\ call' = name
    /\ props' = r.h.props
    /\ rules' = r.h.rules
    /\ sheets' = r.h.sheets
    /\ ret' = IF isRaised THEN <<>> ELSE <<r.ret>>
    /\ raised' = isRaised
    /\ arg' = overwrite
    /\ frame' = f
    /\ UNCHANGED <<in_a, in_b, sheet_a, sheet_b>>
    /\ UNCHANGED pvars

CallAnd ==
    /\ call = ""
    /\ Return("__and__", __and__(Heap, sheet_a, sheet_b), FALSE, None, NoFrame)

CallSub ==
    /\ call = ""
    /\ Return("__sub__", __sub__(Heap, sheet_a, sheet_b), FALSE, None, NoFrame)

CallOr ==
    /\ call = ""
    /\ LET r == __or__(Heap, sheet_a, sheet_b)
       IN  Return("__or__", r, r.raised, None, NoFrame)

CallAdd ==
    /\ call = ""
    /\ LET r == __add__(Heap, sheet_a, sheet_b)
       IN  Return("__add__", r, r.raised, None, NoFrame)

CallFromSheet ==
    /\ call = ""
    /\ \E overwrite_values \in {None, Unset} :
          Return("from_sheet", from_sheet(Heap, sheet_a, overwrite_values),
                 FALSE, overwrite_values, NoFrame)

\* combine_themes, lines 645-660, one statement per line; each local is
\* bound to the value its statement computes.  Only the last statement can
\* raise; combined is 0 in the frame when it did.
CallCombineThemes ==
    /\ call = ""
    /\ \E sheet_in_both \in {__and__(Heap, sheet_a, sheet_b)} :
       \E sheet_unique_l \in {__sub__(sheet_in_both.h, sheet_a, sheet_in_both.ret)} :
       \E sheet_unique_d \in {__sub__(sheet_unique_l.h, sheet_b, sheet_in_both.ret)} :
       \E sheet_unset_l \in {from_sheet(sheet_unique_d.h, sheet_unique_l.ret, Unset)} :
       \E sheet_unset_d \in {from_sheet(sheet_unset_l.h, sheet_unique_d.ret, Unset)} :
       \E sheet_unset_both \in {__add__(sheet_unset_d.h, sheet_unset_l.ret, sheet_unset_d.ret)} :
       \E sheet_vars_l \in {__add__(sheet_unset_both.h, sheet_unset_both.ret, sheet_unique_l.ret)} :
       \E sheet_vars_d \in {__add__(sheet_vars_l.h, sheet_unset_both.ret, sheet_unique_d.ret)} :
       \E combined \in {__or__(sheet_vars_d.h, sheet_in_both.ret, sheet_unset_both.ret)} :
          /\ call' = "combine_themes"
          /\ props' = combined.h.props
          /\ rules' = combined.h.rules
          /\ sheets' = combined.h.sheets
          /\ raised' = combined.raised
          /\ ret' = IF combined.raised THEN <<>>
                    ELSE <<sheet_vars_l.ret, sheet_vars_d.ret, combined.ret>>
          /\ frame' = [sheet_in_both |-> sheet_in_both.ret,
                       sheet_unique_l |-> sheet_unique_l.ret,
                       sheet_unique_d |-> sheet_unique_d.ret,
                       sheet_unset_l |-> sheet_unset_l.ret,
                       sheet_unset_d |-> sheet_unset_d.ret,
                       sheet_unset_both |-> sheet_unset_both.ret,
                       sheet_vars_l |-> sheet_vars_l.ret,
                       sheet_vars_d |-> sheet_vars_d.ret,
                       combined |-> combined.ret]
          /\ UNCHANGED <<in_a, in_b, sheet_a, sheet_b, arg>>
          /\ UNCHANGED pvars

Next ==
    \/ CallAnd
    \/ CallSub
    \/ CallOr
    \/ CallAdd
    \/ CallFromSheet
    \/ CallCombineThemes

Spec == Init /\ [][Next]_vars

(* ---------------- the state machine of parse --------------------------- *)

\* Bound: the longest text given to parse.
MaxLen == 5

Alphabet == { " ", "\t", "a", "{", "}", ":", ";", "/", "*" }
Texts == SeqUpTo(Alphabet, MaxLen)

\* No sheet operation is running: the state of the sheets while parse runs.
SheetsIdle ==
    /\ props = <<>>
    /\ rules = <<>>
    /\ sheets = <<>>
    /\ in_a = <<>>
    /\ in_b = <<>>
    /\ sheet_a = 0
    /\ sheet_b = 0
    /\ call = ""
    /\ arg = None
    /\ ret = <<>>
    /\ raised = FALSE
    /\ frame = NoFrame

InitParse == SheetsIdle /\ ParserIdle

\* parse(css_str) is called: line 318 and the making of the iterator.
\* parse without its line 318: the parser goes on as the call before left
\* it.
Enter_no_reset(text, cmt) ==
    /\ pc \in {"idle", "returned"}
    /\ UNCHANGED <<parser, lists>>
    /\ css_str' = text
    /\ comment' = cmt
    /\ it' = 0
    /\ pc' = "loop"
    /\ calls' = calls + 1
    /\ UNCHANGED <<parsed, tvars>>
    /\ UNCHANGED avars

Enter(text, cmt) ==
    /\ pc \in {"idle", "returned"}
    /\ \E o \in {_reset_everything([self |-> parser, lists |-> lists])} :
          /\ parser' = o.self
          /\ lists' = o.lists
    /\ css_str' = text
    /\ comment' = cmt
    /\ it' = 0
    /\ pc' = "loop"
    /\ calls' = calls + 1
    /\ UNCHANGED <<parsed, tvars>>
    /\ UNCHANGED avars

ParseCall ==
    /\ pc = "idle"
    /\ \E text \in Texts : Enter(text, <<0, 0>>)

\* Bounds: the longest text before and after a comment, the longest body
\* of a comment.
MaxAround == 2
MaxBody == 2

\* The texts after which the parser is between tokens.
Before ==
    { t \in SeqUpTo(Alphabet, MaxAround) :
          parse(CssParser_init, t).self.state \in {"ROOT", "BLOCK"} }
After == SeqUpTo({"a", "{", "}"}, MaxAround)
\* The body of a comment has no "*/" in it.
Bodies ==
    { b \in SeqUpTo({"a", "/", "*"}, MaxBody) :
          \A i \in 1..(Len(b) - 1) : ~(b[i] = "*" /\ b[i + 1] = "/") }

\* parse is called on a text with a comment in it; comment remembers the
\* places of the first and last character of the comment.
ParseCommented ==
    /\ pc = "idle"
    /\ \E t1 \in Before : \E body \in Bodies : \E t2 \in After :
          Enter(t1 \o <<"/", "*">> \o body \o <<"*", "/">> \o t2,
                <<Len(t1) + 1, Len(t1) + Len(body) + 4>>)

\* Bound: the longest value of a declaration.
MaxValue == 3

\* The blanks between ":" and a value; the values: they begin with a
\* character that is no blank and have no ";" and no "}" in them.
Gaps == { <<>>, <<" ">>, <<"\n", " ">> }
Values ==
    { v \in SeqUpTo({"a", " ", "\t", "\n"}, MaxValue) : v # <<>> /\ v[1] \notin Blank }
Terminators == { <<"}">>, <<";", "}">> }

\* A block with the one declaration a: value, closed by "}" or by ";}".
Declaration(gap, value, end) == <<"{", "a", ":">> \o gap \o value \o end

\* parse is called on a block with one declaration.
ParseDeclaration ==
    /\ pc = "idle"
    /\ \E gap \in Gaps : \E value \in Values : \E end \in Terminators :
          Enter(Declaration(gap, value, end), <<0, 0>>)

\* Bounds: the most selectors before a "{", the most rules in a text.
MaxSelectors == 2
MaxTextRules == 2

\* Selectors, what separates them, and what a block holds.
SelectorNames == { <<"a">>, <<".", "b">> }
Separators == { <<" ">>, <<"\n">> }
BlockBodies == { <<>>, <<"a", ":", "a">> }

\* A rule: selectors, each followed by a separator, then a block.
RuleTexts ==
    { join(sep, sels) \o sep \o <<"{">> \o body \o <<"}">> :
        sels \in SeqUpTo(SelectorNames, MaxSelectors), sep \in Separators, body \in BlockBodies }

\* The texts of one rule or more, as EXAMPLE_CSS_1 of test_css_parser is.
SelectorTexts == { join(<<>>, rs) : rs \in SeqUpTo(RuleTexts, MaxTextRules) } \ { <<>> }

\* parse is called on a text of rules with selector-lists.
ParseSelectors ==
    /\ pc = "idle"
    /\ \E text \in SelectorTexts : Enter(text, <<0, 0>>)

\* One turn of the while loop: next(it) hands out c, the peek finds cn, the
\* state machine acts; the next(it) of lines 349/377 raises StopIteration
\* if the iterator is exhausted.
ParseStep ==
    /\ pc = "loop"
    /\ it < Len(css_str)
    /\ \E turn \in {loop_body([self |-> parser, lists |-> lists],
                              css_str[it + 1], Peek(css_str, it + 1))} :
          /\ parser' = turn.o.self
          /\ lists' = turn.o.lists
          /\ IF turn.skip = 1 /\ it + 1 >= Len(css_str)
             THEN /\ pc' = "raised"
                  /\ it' = it + 1
             ELSE /\ pc' = "loop"
                  /\ it' = it + 1 + turn.skip
    /\ UNCHANGED <<css_str, comment, parsed, calls, tvars>>
    /\ UNCHANGED avars

\* next(it) raises StopIteration at line 323: the loop breaks and parse
\* returns self.new_sheet.
ParseReturn ==
    /\ pc = "loop"
    /\ it >= Len(css_str)
    /\ pc' = "returned"
    /\ parsed' = parser.new_sheet
    /\ UNCHANGED <<parser, lists, css_str, comment, it, calls, tvars>>
    /\ UNCHANGED avars

\* The sheet parse returned is written out: output_sheet() with the
\* defaults of its parameters, as in test_parse_light_theme.
OutputParsed ==
    /\ pc = "returned"
    /\ call = ""
    /\ \E r \in {output_sheet(SheetIn(lists, parsed), NoneStr, FALSE, NoneList)} :
          /\ call' = "output_sheet"
          /\ raised' = r.raised
          /\ ret' = IF r.raised THEN <<>> ELSE <<r.out>>
    /\ UNCHANGED <<props, rules, sheets, in_a, in_b, sheet_a, sheet_b, arg, frame>>
    /\ UNCHANGED pvars

NextParse ==
    \/ ParseCall
    \/ ParseCommented
    \/ ParseDeclaration
    \/ ParseSelectors
    \/ ParseStep
    \/ ParseReturn
    \/ OutputParsed

\* Whether parse is called is up to its caller; the loop of parse is
\* sequential code that never waits: it takes its next turn, and returns,
\* whenever it can.
SpecParse == InitParse /\ [][NextParse]_vars /\ WF_vars(ParseStep) /\ WF_vars(ParseReturn)

(* ---------------- the state machine of a parser used again ------------- *)

\* Bounds: the most calls of parse on one parser, the longest of the short
\* texts given to it.
MaxCalls == 2
MaxReuseLen == 3

\* Short texts, which end anywhere: in a selector, with selectors pending,
\* in a block, in a property, in a comment; and whole rules.
ReuseTexts == SeqUpTo(Alphabet \ {"\t"}, MaxReuseLen) \cup RuleTexts

\* parse is called on a parser, new or used before.
ParseReused ==
    /\ pc \in {"idle", "returned"}
    /\ calls < MaxCalls
    /\ \E text \in ReuseTexts : Enter(text, <<0, 0>>)

NextReuse ==
    \/ ParseReused
    \/ ParseStep
    \/ ParseReturn

SpecReuse == InitParse /\ [][NextReuse]_vars

(* ---------------- the state machine of a sheet's methods --------------- *)

\* Bound: the most properties of the sheet the methods are called on.
MaxOutProps == 2

\* Names as texts: selectors with and without the dot of a class, with two
\* dots, a class name with a "-" in it; property names with and without a
\* "-".
OutSelectorLists ==
    { << <<".", "a">> >>,
      << <<"a">> >>,
      << <<".", ".", "a">> >>,
      << <<".", "a">>, <<".", "b">> >>,
      << <<".", "a", "-", "b">> >> }
OutPropNames == { <<"k">>, <<"b", "-", "k">> }
OutPropValues == { <<"1">>, <<"2">> }
OutProperties == [name : OutPropNames, value : OutPropValues]

\* Every sheet of at most MaxRules rules and exactly n properties.
OutSheetsOf(n) ==
    UNION { { MakeSheet(sel, cnt, flat) :
                sel \in [1..Len(cnt) -> OutSelectorLists], flat \in [1..n -> OutProperties] } :
            cnt \in { c \in SeqUpTo(0..n, MaxRules) : Sum(c) = n } }

\* The arguments of the calls.
LookupSelectorLists == OutSelectorLists \cup { <<>>, << <<".", "b">>, <<".", "a">> >> }
Prefixes == { NoneStr, <<"p">> }
TemplateValues == { NoneList, <<>>, << <<"1">> >> }
ColorSchemes == { NoneStr, <<"d">> }

\* One sheet was built; nothing was called on it.
InitSheet ==
    \E n \in 0..MaxOutProps : \E va \in OutSheetsOf(n) :
        LET a == build_sheet(EmptyHeap, va)
        IN  /\ in_a = va
            /\ in_b = <<>>
            /\ props = a.h.props
            /\ rules = a.h.rules
            /\ sheets = a.h.sheets
            /\ sheet_a = a.ret
            /\ sheet_b = 0
            /\ call = ""
            /\ arg = None
            /\ ret = <<>>
            /\ raised = FALSE
            /\ frame = NoFrame
            /\ ParserIdle

\* What a method that only reads the sheet leaves behind.
Answer(name, args, r, isRaised) ==
    /\ call' = name
    /\ arg' = args
    /\ ret' = IF isRaised THEN <<>> ELSE <<r>>
    /\ raised' = isRaised
    /\ UNCHANGED <<props, rules, sheets, in_a, in_b, sheet_a, sheet_b, frame>>
    /\ UNCHANGED pvars

\* The contents of the rules of a sheet of the heap.
RulesOf(h, sheet) ==
    [i \in 1..Len(h.sheets[sheet]) |->
        LET rule == h.rules[h.sheets[sheet][i]] IN
        [selectors |-> rule.selectors,
         properties |-> [j \in 1..Len(rule.properties) |-> h.props[rule.properties[j]]]]]

CallHasProperty ==
    /\ call = ""
    /\ \E selectors \in LookupSelectorLists : \E prop \in OutProperties :
       \E compare_value \in BOOLEAN :
          Answer("has_property",
                 [selectors |-> selectors, prop |-> prop, compare_value |-> compare_value],
                 has_property(Heap, sheet_a, selectors, prop, compare_value), FALSE)

CallOutputSheet ==
    /\ call = ""
    /\ \E prefix \in Prefixes : \E as_template \in BOOLEAN :
       \E template_values \in TemplateValues :
       \E r \in {output_sheet(RulesOf(Heap, sheet_a), prefix, as_template, template_values)} :
          Answer("output_sheet",
                 [prefix |-> prefix, as_template |-> as_template,
                  template_values |-> template_values],
                 r.out, r.raised)

CallOutputVars ==
    /\ call = ""
    /\ \E prefix \in Prefixes : \E prefers_color_scheme \in ColorSchemes :
       \E r \in {output_vars(RulesOf(Heap, sheet_a), prefix, prefers_color_scheme)} :
          Answer("output_vars",
                 [prefix |-> prefix, prefers_color_scheme |-> prefers_color_scheme],
                 r.out, r.raised)

\* A lookup in the sheet.
NextLookup == CallHasProperty

SpecLookup == InitSheet /\ [][NextLookup]_vars

\* The sheet is written out.
NextOutput ==
    \/ CallOutputSheet
    \/ CallOutputVars

SpecOutput == InitSheet /\ [][NextOutput]_vars

(* ---------------- the state machine of main ---------------------------- *)

\* The values of the themes main reads: a value and the keyword unset.
ThemeValues == { "1", Unset }
ThemeProperties == [name : PropNames, value : ThemeValues]

\* Every theme of at most MaxRules rules and exactly n properties.
ThemesOf(n) ==
    UNION { { MakeSheet(sel, cnt, flat) :
                sel \in [1..Len(cnt) -> SelectorLists], flat \in [1..n -> ThemeProperties] } :
            cnt \in { c \in SeqUpTo(0..n, MaxRules) : Sum(c) = n } }

\* The two themes were read (lines 691-692); nothing was called on them.
InitMain ==
    \E na \in 0..MaxProps : \E nb \in 0..(MaxProps - na) :
    \E va \in ThemesOf(na) : \E vb \in ThemesOf(nb) :
        LET a == build_sheet(EmptyHeap, va)
            b == build_sheet(a.h, vb)
        IN  /\ in_a = va
            /\ in_b = vb
            /\ props = b.h.props
            /\ rules = b.h.rules
            /\ sheets = b.h.sheets
            /\ sheet_a = a.ret
            /\ sheet_b = b.ret
            /\ call = ""
            /\ arg = None
            /\ ret = <<>>
            /\ raised = FALSE
            /\ frame = NoFrame
            /\ ParserIdle

\* The characters of the names and values of the themes.
Chars(s) ==
    CASE s = ".a" -> <<".", "a">>
      [] s = ".b" -> <<".", "b">>
      [] s = "k" -> <<"k">>
      [] s = "m" -> <<"m">>
      [] s = "1" -> <<"1">>
      [] s = "2" -> <<"2">>
      [] s = Unset -> <<"u", "n", "s", "e", "t">>

\* The contents of a sheet with its names and values as texts.
AsText(v) ==
    [i \in 1..Len(v) |->
        [selectors |-> [k \in 1..Len(v[i].selectors) |-> Chars(v[i].selectors[k])],
         properties |-> [j \in 1..Len(v[i].properties) |->
                            [name |-> Chars(v[i].properties[j].name),
                             value |-> Chars(v[i].properties[j].value)]]]]

\* args.prefix, and the color scheme of line 700.
MainPrefix == <<"p">>
Dark == <<"d", "a", "r", "k">>

\* main, lines 691-707: combine_themes (lines 645-660) on the two themes,
\* then the three texts written to the file; ret is the three texts.  An
\* exception of combine_themes ends main.
CallMain ==
    /\ call = ""
    /\ \E sheet_in_both \in {__and__(Heap, sheet_a, sheet_b)} :
       \E sheet_unique_l \in {__sub__(sheet_in_both.h, sheet_a, sheet_in_both.ret)} :
       \E sheet_unique_d \in {__sub__(sheet_unique_l.h, sheet_b, sheet_in_both.ret)} :
       \E sheet_unset_l \in {from_sheet(sheet_unique_d.h, sheet_unique_l.ret, Unset)} :
       \E sheet_unset_d \in {from_sheet(sheet_unset_l.h, sheet_unique_d.ret, Unset)} :
       \E sheet_unset_both \in {__add__(sheet_unset_d.h, sheet_unset_l.ret, sheet_unset_d.ret)} :
       \E sheet_vars_l \in {__add__(sheet_unset_both.h, sheet_unset_both.ret, sheet_unique_l.ret)} :
       \E sheet_vars_d \in {__add__(sheet_vars_l.h, sheet_unset_both.ret, sheet_unique_d.ret)} :
       \E combined \in {__or__(sheet_vars_d.h, sheet_in_both.ret, sheet_unset_both.ret)} :
          /\ call' = "main"
          /\ props' = combined.h.props
          /\ rules' = combined.h.rules
          /\ sheets' = combined.h.sheets
          /\ raised' = combined.raised
          /\ ret' = IF combined.raised THEN <<>>
                    ELSE <<output_vars(AsText(RulesOf(combined.h, sheet_vars_l.ret)),
                                       MainPrefix, NoneStr).out,
                           output_vars(AsText(RulesOf(combined.h, sheet_vars_d.ret)),
                                       MainPrefix, Dark).out,
                           output_sheet(AsText(RulesOf(combined.h, combined.ret)),
                                        MainPrefix, TRUE, <<Chars(Unset)>>).out>>
          /\ frame' = [sheet_in_both |-> sheet_in_both.ret,
                       sheet_unique_l |-> sheet_unique_l.ret,
                       sheet_unique_d |-> sheet_unique_d.ret,
                       sheet_unset_l |-> sheet_unset_l.ret,
                       sheet_unset_d |-> sheet_unset_d.ret,
                       sheet_unset_both |-> sheet_unset_both.ret,
                       sheet_vars_l |-> sheet_vars_l.ret,
                       sheet_vars_d |-> sheet_vars_d.ret,
                       combined |-> combined.ret]
          /\ UNCHANGED <<in_a, in_b, sheet_a, sheet_b, arg>>
          /\ UNCHANGED pvars

NextMain == CallMain

SpecMain == InitMain /\ [][NextMain]_vars

(* ---------------- the state machine of calls in threads --------------- *)

\* Bound: the threads, each of which runs one call.
MaxThreads == 2
Threads == 1..MaxThreads

\* The texts and the operand sheets the threads are given, and the
\* operators they call.
ThreadTexts ==
    { <<"{", "}">>,
      <<"a", " ", "{", "a", ":", "a", "}">>,
      <<"a", " ", "{", "}", "a", " ", "{", "}">>,
      <<"{", "/", "*", "*", "/", "}">> }
ThreadSheets ==
    { <<>>,
      <<[selectors |-> <<".a">>, properties |-> <<[name |-> "k", value |-> "1"]>>]>>,
      <<[selectors |-> <<".a">>,
         properties |-> <<[name |-> "k", value |-> "2"], [name |-> "m", value |-> "1"]>>]>> }
Operators == { "__and__", "__sub__", "__or__", "__add__" }

\* A thread that has not called anything: the locals of its call.
NoThread ==
    [kind |-> "", pc |-> "idle", css_str |-> <<>>, it |-> 0, parser |-> 0,
     a |-> <<>>, b |-> <<>>, self |-> 0, other |-> 0, new_sheet |-> 0, i |-> 0, j |-> 0,
     result |-> 0]

InitThreads ==
    /\ SheetsIdle
    /\ parser = CssParser_init.self
    /\ lists = CssParser_init.lists
    /\ css_str = <<>>
    /\ comment = <<0, 0>>
    /\ it = 0
    /\ pc = "idle"
    /\ parsed = 0
    /\ calls = 0
    /\ threads = [t \in Threads |-> NoThread]
    /\ parsers = <<>>

\* from_str with one CssParser for all calls instead of line 140's
\* CssParser(): the first call makes it, the others take it.
CssParser_shared(ps, ls) ==
    IF ps = <<>>
    THEN LET o == _reset_everything([self |-> NoParser, lists |-> ls])
         IN  [parsers |-> Append(ps, o.self), lists |-> o.lists, id |-> Len(ps) + 1]
    ELSE [parsers |-> ps, lists |-> ls, id |-> 1]

\* CssParser() of line 140: a new parser object, its lists new in the heap.
CssParser_new(ps, ls) ==
    LET o == _reset_everything([self |-> NoParser, lists |-> ls])
    IN  [parsers |-> Append(ps, o.self), lists |-> o.lists, id |-> Len(ps) + 1]

\* A thread calls from_str: CssParser() and parse up to its loop (lines
\* 140, 318-319).
ThreadFromStr ==
    \E t \in Threads :
        /\ threads[t].pc = "idle"
        /\ \E text \in ThreadTexts :
           \E new \in {CssParser_new(parsers, lists)} :
           \E o \in {_reset_everything([self |-> new.parsers[new.id], lists |-> new.lists])} :
              /\ parsers' = [new.parsers EXCEPT ![new.id] = o.self]
              /\ lists' = o.lists
              /\ threads' = [threads EXCEPT ![t] =
                    [NoThread EXCEPT !.kind = "from_str", !.pc = "loop",
                                     !.css_str = text, !.parser = new.id]]
        /\ UNCHANGED <<parser, css_str, comment, it, pc, parsed, calls>>
        /\ UNCHANGED avars

\* A thread makes its two operand sheets and calls an operator on them, up
\* to the operator's loops: new_sheet is a new sheet (lines 552, 573) or a
\* copy of other (line 599).
ThreadOperator ==
    \E t \in Threads :
        /\ threads[t].pc = "idle"
        /\ \E kind \in Operators : \E a \in ThreadSheets : \E b \in ThreadSheets :
           \E x \in {build_sheet(Heap, a)} :
           \E y \in {build_sheet(x.h, b)} :
           \E new \in {IF kind \in {"__and__", "__sub__"}
                       THEN [h |-> CssData_init(y.h).h, ret |-> CssData_init(y.h).id]
                       ELSE from_sheet(y.h, y.ret, None)} :
              /\ props' = new.h.props
              /\ rules' = new.h.rules
              /\ sheets' = new.h.sheets
              /\ threads' = [threads EXCEPT ![t] =
                    [NoThread EXCEPT !.kind = kind, !.pc = "loop", !.a = a, !.b = b,
                                     !.self = x.ret, !.other = y.ret,
                                     !.new_sheet = new.ret, !.i = 1, !.j = 1]]
        /\ UNCHANGED <<in_a, in_b, sheet_a, sheet_b, call, arg, ret, raised, frame>>
        /\ UNCHANGED <<parser, lists, css_str, comment, it, pc, parsed, calls, parsers>>

\* One turn of the while loop of parse in a thread, on the thread's parser.
ThreadParseTurn ==
    \E t \in Threads :
        /\ threads[t].kind = "from_str"
        /\ threads[t].pc = "loop"
        /\ threads[t].it < Len(threads[t].css_str)
        /\ \E turn \in {loop_body([self |-> parsers[threads[t].parser], lists |-> lists],
                                  threads[t].css_str[threads[t].it + 1],
                                  Peek(threads[t].css_str, threads[t].it + 1))} :
              /\ parsers' = [parsers EXCEPT ![threads[t].parser] = turn.o.self]
              /\ lists' = turn.o.lists
              /\ threads' = [threads EXCEPT ![t] =
                    IF turn.skip = 1 /\ threads[t].it + 1 >= Len(threads[t].css_str)
                    THEN [@ EXCEPT !.pc = "raised", !.it = @ + 1]
                    ELSE [@ EXCEPT !.it = @ + 1 + turn.skip]]
        /\ UNCHANGED <<parser, css_str, comment, it, pc, parsed, calls>>
        /\ UNCHANGED avars

\* One turn of the loops of an operator (lines 554-557, 575-580, 601-614):
\* the next property of self, or the step to the next rule of self.
operator_turn(h, th) ==
    LET rule == h.rules[h.sheets[th.self][th.i]] IN
    IF th.j > Len(rule.properties)
    THEN [h |-> h, th |-> [th EXCEPT !.i = @ + 1, !.j = 1]]
    ELSE LET prop == rule.properties[th.j]
             appended == append_property(h, th.new_sheet, rule.selectors, prop)
             next == [th EXCEPT !.j = @ + 1]
         IN  CASE th.kind = "__and__" ->
                    [h |-> IF has_property(h, th.other, rule.selectors, h.props[prop], TRUE)
                           THEN appended ELSE h,
                     th |-> next]
               [] th.kind = "__sub__" ->
                    [h |-> IF has_property(h, th.other, rule.selectors, h.props[prop], TRUE)
                           THEN h ELSE appended,
                     th |-> next]
               [] th.kind = "__add__" ->
                    [h |-> IF has_property(h, th.new_sheet, rule.selectors, h.props[prop], FALSE)
                           THEN h ELSE appended,
                     th |-> next]
               [] th.kind = "__or__" ->
                    IF has_property(h, th.new_sheet, rule.selectors, h.props[prop], FALSE)
                    THEN [h |-> h, th |-> [th EXCEPT !.pc = "raised"]]
                    ELSE [h |-> appended, th |-> next]

ThreadOperatorTurn ==
    \E t \in Threads :
        /\ threads[t].kind \in Operators
        /\ threads[t].pc = "loop"
        /\ threads[t].i <= Len(sheets[threads[t].self])
        /\ \E turn \in {operator_turn(Heap, threads[t])} :
              /\ props' = turn.h.props
              /\ rules' = turn.h.rules
              /\ sheets' = turn.h.sheets
              /\ threads' = [threads EXCEPT ![t] = turn.th]
        /\ UNCHANGED <<in_a, in_b, sheet_a, sheet_b, call, arg, ret, raised, frame>>
        /\ UNCHANGED <<parser, lists, css_str, comment, it, pc, parsed, calls, parsers>>

\* The call of a thread returns: parse its self.new_sheet, an operator its
\* new_sheet.
ThreadReturn ==
    \E t \in Threads :
        /\ threads[t].pc = "loop"
        /\ IF threads[t].kind = "from_str"
           THEN /\ threads[t].it >= Len(threads[t].css_str)
                /\ threads' = [threads EXCEPT ![t] =
                      [@ EXCEPT !.pc = "returned",
                                !.result = parsers[threads[t].parser].new_sheet]]
           ELSE /\ threads[t].i > Len(sheets[threads[t].self])
                /\ threads' = [threads EXCEPT ![t] =
                      [@ EXCEPT !.pc = "returned", !.result = threads[t].new_sheet]]
        /\ UNCHANGED <<parser, lists, css_str, comment, it, pc, parsed, calls, parsers>>
        /\ UNCHANGED avars

NextThreads ==
    \/ ThreadFromStr
    \/ ThreadOperator
    \/ ThreadParseTurn
    \/ ThreadOperatorTurn
    \/ ThreadReturn

\* The threads run whenever the interpreter lets them: any step of any
\* thread can be the next.
SpecThreads == InitThreads /\ [][NextThreads]_vars

(* ---------------- reading the heap ------------------------------------- *)

\* The contents of a sheet object: its rules in order, each with its
\* selector-list and its properties (name, value) in order.
Contents(sheet) ==
    [i \in 1..Len(sheets[sheet]) |->
        LET rule == rules[sheets[sheet][i]] IN
        [selectors |-> rule.selectors,
         properties |-> [j \in 1..Len(rule.properties) |-> props[rule.properties[j]]]]]

\* The (selector-list, name, value) triples of a sheet's contents.
PairsOf(v) ==
    UNION { { <<v[i].selectors, v[i].properties[j].name, v[i].properties[j].value>> :
                j \in 1..Len(v[i].properties) } : i \in 1..Len(v) }

Pairs(sheet) == PairsOf(Contents(sheet))

\* The (selector-list, name) keys of a set of triples.
KeysOf(P) == { <<p[1], p[2]>> : p \in P }

\* The values a set of triples holds for a key.
ValuesAt(P, key) == { p[3] : p \in { q \in P : q[1] = key[1] /\ q[2] = key[2] } }

\* The property objects and the rule objects a sheet reaches.
RuleObjects(sheet) == { sheets[sheet][i] : i \in 1..Len(sheets[sheet]) }
PropObjects(sheet) == PropsOf(Heap, sheet)

\* No rule object occurs twice in a sheet's list and no property object
\* occurs twice in a sheet: what deepcopy_rules relies on.
NoSharingInSheet ==
    \A s \in 1..Len(sheets) :
        /\ Cardinality(RuleObjects(s)) = Len(sheets[s])
        /\ \A i, k \in 1..Len(sheets[s]) : \A j \in 1..Len(rules[sheets[s][i]].properties) :
              \A l \in 1..Len(rules[sheets[s][k]].properties) :
                 rules[sheets[s][i]].properties[j] = rules[sheets[s][k]].properties[l]
                    => (i = k /\ j = l)

(* ---------------- the operands and results of a call ------------------- *)

\* The triples of the operands as they were before the call.
PairsA == PairsOf(in_a)
PairsB == PairsOf(in_b)

\* combine_themes: the triples only the light and only the dark theme hold.
UniqueL == PairsA \ PairsB
UniqueD == PairsB \ PairsA
VaryingKeys == KeysOf(UniqueL) \cup KeysOf(UniqueD)

Returned(name) == call = name /\ ~raised
CombineReturned == Returned("combine_themes") /\ Len(ret) = 3

(* ---------------- C1 --------------------------------------------------- *)

\* C1: combine_themes never raises: for every pair of input sheets, Both and
\* UnsetBoth hold no property of the same name under the same selector-list
\* and the call returns its three sheets.
C1_CombineNeverRaises ==
    call = "combine_themes" =>
        /\ KeysOf(Pairs(frame.sheet_in_both)) \cap KeysOf(Pairs(frame.sheet_unset_both)) = {}
        /\ ~raised
        /\ Len(ret) = 3

(* ---------------- C2 --------------------------------------------------- *)

\* C2: A | B raises ValueError if and only if some (selector-list,
\* property-name) key appears in both A and B, and returns a sheet otherwise.
C2_OrRaisesIffSharedKey ==
    call = "__or__" =>
        /\ raised <=> (KeysOf(PairsA) \cap KeysOf(PairsB) # {})
        /\ ~raised => Len(ret) = 1

(* ---------------- C3 --------------------------------------------------- *)

C4_OperandsUnchanged ==
    /\ Contents(sheet_a) = in_a
    /\ Contents(sheet_b) = in_b

\* combine_themes returned after overwriting the values of a derived sheet
\* that was made from the light theme's own properties.
C4_Witness ==
    /\ CombineReturned
    /\ Pairs(frame.sheet_unset_l) # {}
    /\ PropObjects(frame.sheet_unique_l) \cap PropObjects(sheet_a) # {}

(* ---------------- C5 --------------------------------------------------- *)

\* C5: A & B holds exactly the (selector-list, property) pairs of A that B
\* holds with the same name and value under the same selector-list.
C5_AndIsIntersection ==
    call = "__and__" => Pairs(ret[1]) = PairsA \cap PairsB

\* A & B kept one pair of A and dropped another.
C5_Witness ==
    /\ call = "__and__"
    /\ Pairs(ret[1]) # {}
    /\ Pairs(ret[1]) # PairsA
    /\ \E p \in PairsA \ PairsB : <<p[1], p[2]>> \in KeysOf(PairsB)

(* ---------------- C6 --------------------------------------------------- *)

\* C6: A - B holds exactly the (selector-list, property) pairs of A that B
\* does not hold with the same name and value under the same selector-list.
C6_SubIsDifference ==
    call = "__sub__" => Pairs(ret[1]) = PairsA \ PairsB

\* A - B dropped one pair of A and kept another whose key B has too.
C6_Witness ==
    /\ call = "__sub__"
    /\ PairsA \cap PairsB # {}
    /\ \E p \in Pairs(ret[1]) : <<p[1], p[2]>> \in KeysOf(PairsB)

(* ---------------- C7 --------------------------------------------------- *)

\* C7: A - (A & B), as combine_themes computes it for the light theme
\* (lines 645-647), holds no pair that B holds with equal value.
C7_SubOfAndAvoidsOther ==
    call = "combine_themes" => Pairs(frame.sheet_unique_l) \cap PairsB = {}

\* A & B was not empty and A - (A & B) was not empty.
C7_Witness ==
    /\ call = "combine_themes"
    /\ Pairs(frame.sheet_in_both) # {}
    /\ Pairs(frame.sheet_unique_l) # {}

(* ---------------- C8 --------------------------------------------------- *)

\* C8: when combine_themes returns, for every key of UniqueL or UniqueD,
\* VarsLight holds L's own non-shared value(s) for the key if L has any and
\* "unset" otherwise, and VarsDark likewise with D.
C8_VarsHoldOwnValueOrUnset ==
    CombineReturned =>
        \A key \in VaryingKeys :
            /\ ValuesAt(Pairs(ret[1]), key) =
                  IF key \in KeysOf(UniqueL) THEN ValuesAt(UniqueL, key) ELSE {Unset}
            /\ ValuesAt(Pairs(ret[2]), key) =
                  IF key \in KeysOf(UniqueD) THEN ValuesAt(UniqueD, key) ELSE {Unset}

\* combine_themes returned for themes that give one key different values and
\* hold another key in one theme only.
C8_Witness ==
    /\ CombineReturned
    /\ KeysOf(UniqueL) \cap KeysOf(UniqueD) # {}
    /\ KeysOf(UniqueL) # KeysOf(UniqueD)

(* ---------------- C9 --------------------------------------------------- *)

\* C9: when combine_themes returns, Combined holds every pair identical in
\* both themes with its literal value, an "unset" property for every key of
\* UniqueL or UniqueD, and nothing else.
C9_CombinedIsSharedPlusUnset ==
    CombineReturned =>
        Pairs(ret[3]) = (PairsA \cap PairsB) \cup { <<key[1], key[2], Unset>> : key \in VaryingKeys }

\* combine_themes returned a Combined sheet with a shared and a varying part.
C9_Witness ==
    /\ CombineReturned
    /\ PairsA \cap PairsB # {}
    /\ VaryingKeys # {}

(* ---------------- C10 -------------------------------------------------- *)

\* The contents v with every property value replaced by value.
Overwritten(v, value) ==
    [i \in 1..Len(v) |->
        [selectors |-> v[i].selectors,
         properties |-> [j \in 1..Len(v[i].properties) |->
                            [name |-> v[i].properties[j].name, value |-> value]]]]

\* C10: from_sheet(S, v) returns a new sheet, of new rule and property
\* objects, with S's rules, selector-lists and property names in S's order,
\* every value being v if v is given and S's value if not; S keeps its values.
C10_FromSheetCopies ==
    call = "from_sheet" =>
        /\ ret[1] \notin {sheet_a, sheet_b}
        /\ RuleObjects(ret[1]) \cap RuleObjects(sheet_a) = {}
        /\ PropObjects(ret[1]) \cap PropObjects(sheet_a) = {}
        /\ Contents(ret[1]) = IF arg = None THEN in_a ELSE Overwritten(in_a, arg)
        /\ Contents(sheet_a) = in_a

\* from_sheet was called with a value to write on a sheet that has properties.
C10_Witness ==
    /\ call = "from_sheet"
    /\ arg = Unset
    /\ PairsA # {}
    /\ Len(in_a) = MaxRules

(* ---------------- reading the parser ----------------------------------- *)

\* The contents of the sheet being built, and of the sheet returned.
NewSheet == SheetIn(lists, parser.new_sheet)
Parsed == SheetIn(lists, parsed)

\* The loop of ParseStep and the loop of parse agree.
StepsAgreeWithParse ==
    pc = "returned" => Parsed = from_str(css_str)

\* What a turn of the loop can see of the parser: its state, its buffers,
\* the pending lists and the rules of the sheet.
View(p, ls) ==
    [state |-> p.state,
     selector_name |-> p.selector_name,
     selectors |-> ls[p.selectors],
     prop_name |-> p.prop_name,
     prop_value |-> p.prop_value,
     properties |-> ls[p.properties],
     rules |-> SheetIn(ls, p.new_sheet)]

\* A text without its trailing whitespace: it ends at its last character
\* that is not whitespace.
TrimTrailing(s) ==
    LET keep == { i \in 1..Len(s) : s[i] \notin Whitespace }
    IN  SubSeq(s, 1, IF keep = {} THEN 0 ELSE CHOOSE i \in keep : \A j \in keep : j <= i)

(* ---------------- C11: the transition table ---------------------------- *)

\* The row of the transition table for a state, the character c and the
\* lookahead cn: the action and the next state.
TableRow(state, c, cn) ==
    CASE state = "ROOT" /\ c \in {" ", "\n"} -> <<"skip", "ROOT">>
      [] state = "ROOT" /\ c = "/" /\ cn = "*" -> <<"none", "ROOT_COMMENT">>
      [] state = "ROOT" /\ c = "{" -> <<"none", "BLOCK">>
      [] state = "ROOT" -> <<"start selector name", "SELECTOR">>
      [] state = "ROOT_COMMENT" /\ c = "*" /\ cn = "/" -> <<"consume extra char", "ROOT">>
      [] state = "ROOT_COMMENT" -> <<"skip", "ROOT_COMMENT">>
      [] state = "SELECTOR" /\ c \in {" ", "\n"} -> <<"finish selector", "ROOT">>
      [] state = "SELECTOR" -> <<"append to selector name", "SELECTOR">>
      [] state = "BLOCK" /\ c \in {" ", "\n"} -> <<"skip", "BLOCK">>
      [] state = "BLOCK" /\ c = "/" /\ cn = "*" -> <<"none", "BLOCK_COMMENT">>
      [] state = "BLOCK" /\ c = "}" -> <<"finish rule", "ROOT">>
      [] state = "BLOCK" -> <<"start property name", "BLOCK_PROP_NAME">>
      [] state = "BLOCK_COMMENT" /\ c = "*" /\ cn = "/" -> <<"consume extra char", "BLOCK">>
      [] state = "BLOCK_COMMENT" -> <<"skip", "BLOCK_COMMENT">>
      [] state = "BLOCK_PROP_NAME" /\ c = ":" -> <<"none", "BLOCK_GAP">>
      [] state = "BLOCK_PROP_NAME" -> <<"append to property name", "BLOCK_PROP_NAME">>
      [] state = "BLOCK_GAP" /\ c \in {" ", "\n"} -> <<"skip", "BLOCK_GAP">>
      [] state = "BLOCK_GAP" -> <<"start property value", "BLOCK_PROP_VALUE">>
      [] state = "BLOCK_PROP_VALUE" /\ c = ";" -> <<"finish property", "BLOCK">>
      [] state = "BLOCK_PROP_VALUE" /\ c = "}" -> <<"finish property, finish rule", "ROOT">>
      [] state = "BLOCK_PROP_VALUE" -> <<"append to property value", "BLOCK_PROP_VALUE">>

\* The pending properties after "finish property": a property with an empty
\* name is dropped, the value loses its trailing whitespace.
TableFinishProperty(v) ==
    IF v.prop_name = <<>> THEN v.properties
    ELSE Append(v.properties, [name |-> v.prop_name, value |-> TrimTrailing(v.prop_value)])

\* What the action of a row does to the buffers.
TableAction(action, v, c) ==
    CASE action \in {"skip", "none", "consume extra char"} -> v
      [] action = "start selector name" -> [v EXCEPT !.selector_name = <<c>>]
      [] action = "append to selector name" -> [v EXCEPT !.selector_name = Append(@, c)]
      [] action = "finish selector" ->
            [v EXCEPT !.selectors = Append(@, v.selector_name), !.selector_name = <<>>]
      [] action = "start property name" -> [v EXCEPT !.prop_name = <<c>>]
      [] action = "append to property name" -> [v EXCEPT !.prop_name = Append(@, c)]
      [] action = "start property value" -> [v EXCEPT !.prop_value = <<c>>]
      [] action = "append to property value" -> [v EXCEPT !.prop_value = Append(@, c)]
      [] action = "finish property" ->
            [v EXCEPT !.properties = TableFinishProperty(v),
                      !.prop_name = <<>>, !.prop_value = <<>>]
      [] action = "finish rule" ->
            [v EXCEPT !.rules = Append(@, [selectors |-> v.selectors,
                                           properties |-> v.properties]),
                      !.selectors = <<>>, !.properties = <<>>,
                      !.prop_name = <<>>, !.prop_value = <<>>]
      [] action = "finish property, finish rule" ->
            [v EXCEPT !.rules = Append(@, [selectors |-> v.selectors,
                                           properties |-> TableFinishProperty(v)]),
                      !.selectors = <<>>, !.properties = <<>>,
                      !.prop_name = <<>>, !.prop_value = <<>>]

\* The table's turn for the character c with lookahead cn: the view after
\* it and the number of characters it consumed.
TableTurn(v, c, cn) ==
    LET row == TableRow(v.state, c, cn)
    IN  [view |-> [TableAction(row[1], v, c) EXCEPT !.state = row[2]],
         consumed |-> IF row[1] = "consume extra char" THEN 2 ELSE 1]

\* The view parse starts from: state ROOT, every buffer and list empty.
TableStart ==
    [state |-> "ROOT", selector_name |-> <<>>, selectors |-> <<>>, prop_name |-> <<>>,
     prop_value |-> <<>>, properties |-> <<>>, rules |-> <<>>]

\* C11: parse starts in ROOT with empty buffers, and every turn of its loop
\* moves to the state and does to the buffers what the row of the transition
\* table for (state, c, cn) says, consuming one extra character exactly
\* when the row says so.
C11_ParserRefinesTable ==
    [][/\ (pc = "idle" /\ pc' = "loop") => (View(parser', lists') = TableStart /\ it' = 0)
       /\ (pc = "loop" /\ it < Len(css_str)) =>
             LET turn == TableTurn(View(parser, lists), css_str[it + 1], Peek(css_str, it + 1))
             IN  /\ View(parser', lists') = turn.view
                 /\ it' = it + turn.consumed
                 /\ pc' = "loop"]_vars

\* A comment in a block was closed by "*/", the extra character consumed.
C11_Witness ==
    /\ pc = "loop"
    /\ it = Len(css_str)
    /\ parser.state = "BLOCK"
    /\ it >= 2
    /\ css_str[it - 1] = "*"
    /\ css_str[it] = "/"

(* ---------------- C12: parse terminates -------------------------------- *)

\* C12: on every text parse never raises, its iterator never hands out
\* more characters than the text has and moves forward at every turn of the
\* loop (no character is read twice), and every call of parse returns a
\* sheet: the list of rules it returns is the one parse built.
C12_ParseTerminates ==
    /\ [][/\ pc' # "raised"
          /\ it' <= Len(css_str')
          /\ (pc = "loop" /\ pc' = "loop" => it' > it)
          /\ (pc' = "returned" => parsed' = parser.new_sheet /\ it = Len(css_str))]_vars
    /\ (pc = "loop") ~> (pc = "returned")

\* parse returned on a text that ends inside a comment, right after a "*".
C12_Witness ==
    /\ pc = "returned"
    /\ parser.state \in {"ROOT_COMMENT", "BLOCK_COMMENT"}
    /\ css_str[Len(css_str)] = "*"

(* ---------------- C13: comments ---------------------------------------- *)

\* The text given to parse without its comment.
Uncommented == SubSeq(css_str, 1, comment[1] - 1) \o SubSeq(css_str, comment[2] + 1, Len(css_str))

\* C13: parse of a text with a comment /* body */ put where the parser is in
\* ROOT or BLOCK returns the sheet it returns for the text without the
\* comment.
C13_CommentsProduceNoTokens ==
    (pc = "returned" /\ comment # <<0, 0>>) => Parsed = from_str(Uncommented)

(* ---------------- C14: truncated input --------------------------------- *)

IsPrefix(s, t) == Len(s) <= Len(t) /\ SubSeq(t, 1, Len(s)) = s

\* C14: a turn of the loop leaves the rules of the sheet as they are, or,
\* when it reads a "}", appends one rule to them; parse returns the rules
\* appended so far and nothing of what is pending; so the rules parse
\* returns for any prefix of the text are a prefix of the rules it returns
\* for the text.
C14_TruncationLosesUnfinishedRule ==
    [][/\ (pc = "loop" /\ pc' = "loop") =>
             \/ SheetIn(lists', parser'.new_sheet) = NewSheet
             \/ /\ css_str[it + 1] = "}"
                /\ Len(SheetIn(lists', parser'.new_sheet)) = Len(NewSheet) + 1
                /\ IsPrefix(NewSheet, SheetIn(lists', parser'.new_sheet))
       /\ (pc = "loop" /\ pc' = "returned") =>
             /\ SheetIn(lists', parsed') = NewSheet
             /\ \A n \in 0..Len(css_str) :
                   IsPrefix(from_str(SubSeq(css_str, 1, n)), SheetIn(lists', parsed'))]_vars

\* parse returned the one finished rule and dropped the second rule, whose
\* block was open with a partly read property when the text ended.
C14_Witness ==
    /\ pc = "returned"
    /\ Len(Parsed) = 1
    /\ parser.state = "BLOCK_PROP_NAME"
    /\ parser.prop_name # <<>>

(* ---------------- C15: the value of a declaration ---------------------- *)

\* C15: parse of a block with one declaration, closed by "}" or by ";}",
\* returns one rule with that one property, and its value is what was read
\* from the first character after the blanks that follow ":" up to the
\* terminator, without its trailing whitespace.
C15_ValueFinalizedByBoth ==
    (pc = "returned" /\ Len(css_str) >= 5 /\ SubSeq(css_str, 1, 3) = <<"{", "a", ":">>) =>
        \A gap \in Gaps : \A value \in Values : \A end \in Terminators :
            css_str = Declaration(gap, value, end) =>
                Parsed = << [selectors |-> <<>>,
                             properties |-> << [name |-> <<"a">>,
                                                value |-> TrimTrailing(value)] >>] >>

\* parse returned the value "a" of a declaration closed by "}" alone, that
\* had blanks before the value and whitespace after it.
C15_Witness ==
    /\ pc = "returned"
    /\ \E value \in Values : css_str = Declaration(<<" ">>, value, <<"}">>)
    /\ css_str[Len(css_str) - 1] \in Whitespace
    /\ Len(Parsed) = 1
    /\ Len(Parsed[1].properties) = 1
    /\ Parsed[1].properties[1].value = <<"a">>

(* ---------------- C16: parse of the output ----------------------------- *)

\* The text has no comment in it: no "/" followed by "*".
NoComment(text) == \A i \in 1..(Len(text) - 1) : ~(text[i] = "/" /\ text[i + 1] = "*")

\* C16: for a text without comments, parse of the text that output_sheet()
\* wrote for the sheet parse returned gives a sheet with the same rules.
C16_ParseOfOutputIsSame ==
    (call = "output_sheet" /\ ~raised /\ NoComment(css_str)) => from_str(ret[1]) = Parsed

(* ---------------- C17: has_property ------------------------------------ *)

\* The two selector-lists have the same length and the same names in the
\* same order.
SameSelectors(s, t) == Len(s) = Len(t) /\ \A k \in 1..Len(s) : s[k] = t[k]

\* C17: has_property answers True exactly when a rule of the sheet has the
\* asked selector-list, name for name in order, and a property of the asked
\* name, and of the asked value if compare_value; the sheet and its objects
\* are as they were before the call.
C17_HasPropertyIsExactLookup ==
    call = "has_property" =>
        /\ ret[1] = (\E i \in 1..Len(in_a) :
                        /\ SameSelectors(in_a[i].selectors, arg.selectors)
                        /\ \E j \in 1..Len(in_a[i].properties) :
                              /\ in_a[i].properties[j].name = arg.prop.name
                              /\ (arg.compare_value =>
                                     in_a[i].properties[j].value = arg.prop.value))
        /\ Contents(sheet_a) = in_a
        /\ Len(sheets) = 1

\* has_property answered False for the selectors of a rule in another
\* order, though that rule has the asked property.
C17_Witness ==
    /\ call = "has_property"
    /\ ret[1] = FALSE
    /\ arg.selectors = << <<".", "b">>, <<".", "a">> >>
    /\ \E i \in 1..Len(in_a) :
          /\ in_a[i].selectors = << <<".", "a">>, <<".", "b">> >>
          /\ \E j \in 1..Len(in_a[i].properties) : in_a[i].properties[j] = arg.prop

(* ---------------- C18: no prefix --------------------------------------- *)

\* C18: output_sheet called with as_template and without a prefix raises,
\* and output_vars called without a prefix raises; they return no text.
C18_NoPrefixRaises ==
    /\ (call = "output_sheet" /\ arg.as_template /\ arg.prefix = NoneStr) =>
            (raised /\ ret = <<>>)
    /\ (call = "output_vars" /\ arg.prefix = NoneStr) => (raised /\ ret = <<>>)

(* ---------------- C19: the names of the variables ---------------------- *)

\* A name without the dots it begins with.
Undotted(name) ==
    LET dots == { k \in 0..Len(name) : \A i \in 1..k : name[i] = "." }
    IN  SubSeq(name, (CHOOSE k \in dots : \A d \in dots : d <= k) + 1, Len(name))

\* The names of a selector-list, undotted, with a "-" between them.
RECURSIVE Dashed(_)
Dashed(selectors) ==
    IF selectors = <<>> THEN <<>>
    ELSE IF Len(selectors) = 1 THEN Undotted(selectors[1])
    ELSE Dashed(SubSeq(selectors, 1, Len(selectors) - 1))
         \o <<"-">> \o Undotted(selectors[Len(selectors)])

\* The name of the variable of a property: --prefix-selectors-property.
ExpectedName(prefix, selectors, prop_name) ==
    <<"-", "-">> \o prefix \o <<"-">> \o Dashed(selectors) \o <<"-">> \o prop_name

\* The lines of a text, each without the "\n" that ends it.
RECURSIVE Lines(_)
Lines(text) ==
    LET ends == { i \in 1..Len(text) : text[i] = "\n" }
    IN  IF ends = {} THEN IF text = <<>> THEN <<>> ELSE <<text>>
        ELSE LET first == CHOOSE i \in ends : \A j \in ends : i <= j
             IN  <<SubSeq(text, 1, first - 1)>> \o Lines(SubSeq(text, first + 1, Len(text)))

\* The text part is somewhere in the text whole.
Occurs(part, whole) ==
    \E i \in 0..(Len(whole) - Len(part)) : SubSeq(whole, i + 1, i + Len(part)) = part

\* The properties of a sheet's contents in order, each with the selectors
\* of its rule.
RECURSIVE Entries(_)
Entries(v) ==
    IF v = <<>> THEN <<>>
    ELSE [j \in 1..Len(v[1].properties) |-> <<v[1].selectors, v[1].properties[j]>>]
         \o Entries(Tail(v))

\* output_sheet writes a reference for the property.
Templated(prop) ==
    /\ arg.as_template
    /\ \/ arg.template_values = NoneList
       \/ \E i \in 1..Len(arg.template_values) : arg.template_values[i] = prop.value

\* C19: with a prefix given, output_vars declares every property of the
\* sheet, in order, one per line, under the name
\* --prefix-selectors-property (the selector names undotted and joined by
\* "-"), and output_sheet writes for every property it replaces by a
\* reference, in the line of its rule, var( that same name ).
C19_VarNameFormat ==
    /\ (call = "output_vars" /\ ~raised) =>
          LET lines == Lines(ret[1])
              top == arg.prefers_color_scheme = NoneStr
              skip == IF top THEN 1 ELSE 2
              indent == IF top THEN <<" ", " ">> ELSE <<" ", " ", " ", " ">>
              e == Entries(in_a)
          IN  /\ Len(lines) = Len(e) + 2 * skip
              /\ \A k \in 1..Len(e) :
                    lines[skip + k] =
                        indent \o ExpectedName(arg.prefix, e[k][1], e[k][2].name)
                        \o <<":", " ">> \o e[k][2].value \o <<";">>
    /\ (call = "output_sheet" /\ ~raised /\ arg.prefix # NoneStr) =>
          LET lines == Lines(ret[1])
          IN  /\ Len(lines) = Len(in_a)
              /\ \A i \in 1..Len(in_a) : \A j \in 1..Len(in_a[i].properties) :
                    LET prop == in_a[i].properties[j]
                    IN  Templated(prop) =>
                            Occurs(prop.name \o <<":", " ", "v", "a", "r", "(">>
                                   \o ExpectedName(arg.prefix, in_a[i].selectors, prop.name)
                                   \o <<")">>,
                                   lines[i])

\* output_sheet wrote a reference for a property of a rule with two
\* selectors, and kept the value of another property.
C19_Witness ==
    /\ call = "output_sheet"
    /\ ~raised
    /\ arg.prefix # NoneStr
    /\ \E i \in 1..Len(in_a) :
          /\ Len(in_a[i].selectors) = 2
          /\ \E j \in 1..Len(in_a[i].properties) : Templated(in_a[i].properties[j])
    /\ \E i \in 1..Len(in_a) :
          \E j \in 1..Len(in_a[i].properties) : ~Templated(in_a[i].properties[j])

(* ---------------- C20: the names are unique ---------------------------- *)

\* C20: the names var_name makes for the properties output_vars declares
\* differ whenever the (selector-list, property name) keys differ.
C20_VarNamesUnique ==
    (call = "output_vars" /\ ~raised) =>
        \A k1 \in KeysOf(PairsOf(in_a)) : \A k2 \in KeysOf(PairsOf(in_a)) :
            k1 # k2 =>
                var_name(arg.prefix, selectors_name_combined(k1[1]), k1[2], FALSE)
                    # var_name(arg.prefix, selectors_name_combined(k2[1]), k2[2], FALSE)

(* ---------------- C22: the union ---------------------------------------- *)

\* C22: the result of A + B, and of A | B when it returns, starts with B's
\* rules in B's order, each starting with B's properties in B's order, and
\* holds every pair of A whose (selector-list, name) key B does not hold:
\* no such pair of A is dropped.
C22_UnionCopiesOtherAppendsSelf ==
    (call \in {"__add__", "__or__"} /\ ~raised) =>
        /\ Len(Contents(ret[1])) >= Len(in_b)
        /\ \A i \in 1..Len(in_b) :
              /\ Contents(ret[1])[i].selectors = in_b[i].selectors
              /\ IsPrefix(in_b[i].properties, Contents(ret[1])[i].properties)
        /\ \A p \in PairsA :
              <<p[1], p[2]>> \notin KeysOf(PairsB) => p \in Pairs(ret[1])

(* ---------------- C23: themes without duplicate declarations ----------- *)

\* No property name is declared twice under one selector-list, counting
\* all the rules of the contents v that have that selector-list.
NoDuplicateKeys(v) ==
    \A i, k \in 1..Len(v) :
        \A j \in 1..Len(v[i].properties) : \A l \in 1..Len(v[k].properties) :
            (/\ v[i].selectors = v[k].selectors
             /\ v[i].properties[j].name = v[k].properties[l].name)
                => (i = k /\ j = l)

\* C23: if neither theme declares a property name twice under one
\* selector-list, combine_themes returns its three sheets and does not
\* raise.
C23_NoDuplicatesNoConflict ==
    (call = "combine_themes" /\ NoDuplicateKeys(in_a) /\ NoDuplicateKeys(in_b)) =>
        /\ ~raised
        /\ Len(ret) = 3

\* combine_themes returned for themes without duplicates, one of which
\* spreads one selector-list over two rules, that share one pair and
\* differ in another.
C23_Witness ==
    /\ CombineReturned
    /\ NoDuplicateKeys(in_a)
    /\ NoDuplicateKeys(in_b)
    /\ \E i, k \in 1..Len(in_a) : i # k /\ in_a[i].selectors = in_a[k].selectors
    /\ PairsA \cap PairsB # {}
    /\ VaryingKeys # {}

(* ---------------- C25: the two variable sheets declare the same keys --- *)

\* C25: when combine_themes returns, VarsLight and VarsDark hold the same
\* (selector-list, name) keys: the keys of UniqueL together with the keys of
\* UniqueD, the sheets computed at lines 646-647.
C25_VarsDeclareSameKeys ==
    CombineReturned =>
        /\ Pairs(frame.sheet_unique_l) = UniqueL
        /\ Pairs(frame.sheet_unique_d) = UniqueD
        /\ KeysOf(Pairs(ret[1])) = VaryingKeys
        /\ KeysOf(Pairs(ret[2])) = VaryingKeys

\* combine_themes returned for themes each of which holds a key the other
\* does not hold.
C25_Witness ==
    /\ CombineReturned
    /\ KeysOf(PairsA) \ KeysOf(PairsB) # {}
    /\ KeysOf(PairsB) \ KeysOf(PairsA) # {}

(* ---------------- C26: the order of the Combined sheet ------------------ *)

\* The property at place j of rule i of the contents v is a placeholder: its
\* key is one the themes do not share.
IsPlaceholder(v, i, j) == <<v[i].selectors, v[i].properties[j].name>> \in VaryingKeys

HasPlaceholder(v, i) == \E j \in 1..Len(v[i].properties) : IsPlaceholder(v, i, j)

\* C26: in the Combined sheet combine_themes returns, every rule with a
\* placeholder property precedes every rule with shared properties only,
\* and inside a rule every placeholder property precedes every shared one,
\* whatever the order in the themes was; the placeholders hold "unset".
C26_PlaceholdersFirst ==
    CombineReturned =>
        LET v == Contents(ret[3]) IN
        /\ \A i, k \in 1..Len(v) : (HasPlaceholder(v, i) /\ ~HasPlaceholder(v, k)) => i < k
        /\ \A i \in 1..Len(v) : \A j, l \in 1..Len(v[i].properties) :
              (IsPlaceholder(v, i, j) /\ ~IsPlaceholder(v, i, l)) => j < l
        /\ \A i \in 1..Len(v) : \A j \in 1..Len(v[i].properties) :
              IsPlaceholder(v, i, j) => v[i].properties[j].value = Unset

\* combine_themes returned for a light theme that starts with a shared
\* pair and goes on with a pair of its own, under the same selector-list or
\* under another.
C26_Witness ==
    /\ CombineReturned
    /\ Len(in_a) >= 1
    /\ Len(in_a[1].properties) >= 1
    /\ <<in_a[1].selectors, in_a[1].properties[1].name, in_a[1].properties[1].value>> \in PairsB
    /\ VaryingKeys # {}
    /\ HasPlaceholder(Contents(ret[3]), 1)

(* ---------------- C27: the rules of the returned sheets ----------------- *)

\* C27: every rule of each of the three sheets combine_themes returns has
\* at least one property, and no two rules of one returned sheet have the
\* same selector-list.
C27_RulesNonEmptyAndMerged ==
    CombineReturned =>
        \A s \in 1..3 :
            LET v == Contents(ret[s]) IN
            /\ \A i \in 1..Len(v) : Len(v[i].properties) >= 1
            /\ \A i, k \in 1..Len(v) : v[i].selectors = v[k].selectors => i = k

\* combine_themes returned for a light theme with two rules of one
\* selector-list, each holding a pair of its own, and a dark theme with a
\* rule without properties.
C27_Witness ==
    /\ CombineReturned
    /\ \E i, k \in 1..Len(in_a) :
          /\ i # k
          /\ in_a[i].selectors = in_a[k].selectors
          /\ in_a[i].properties # <<>>
          /\ in_a[k].properties # <<>>
    /\ PairsA \cap PairsB = {}
    /\ \E i \in 1..Len(in_b) : in_b[i].properties = <<>>

(* ---------------- C28: the selector-list of a rule ---------------------- *)

\* The pieces of the text t that end at a character of ends, without that
\* character; what follows the last such character is left out.
RECURSIVE Pieces(_, _, _)
Pieces(t, ends, cur) ==
    IF t = <<>> THEN <<>>
    ELSE IF Head(t) \in ends THEN <<cur>> \o Pieces(Tail(t), ends, <<>>)
    ELSE Pieces(Tail(t), ends, Append(cur, Head(t)))

NonEmpty(w) == w # <<>>

\* The selectors of a text of rules, read off the text: for each "}" the
\* words, in order, between the "}" before it and its "{".
SelectorsRead(text) ==
    LET closed == Pieces(text, {"}"}, <<>>) IN
    [i \in 1..Len(closed) |->
        SelectSeq(Pieces(Pieces(closed[i], {"{"}, <<>>)[1], Blank, <<>>), NonEmpty)]

\* C28: for a text of rules whose selectors are each followed by a space
\* or a newline, parse returns one rule for each "}", and the rule's
\* selector-list is the selectors read between the previous "}" and the
\* rule's "{", in the order read, and nothing else.
C28_SelectorListIsWhatWasRead ==
    (pc = "returned" /\ css_str \in SelectorTexts) =>
        [i \in 1..Len(Parsed) |-> Parsed[i].selectors] = SelectorsRead(css_str)

\* parse returned two rules, the first with two different selectors and
\* the second with a selector-list that is not the first's.
C28_Witness ==
    /\ pc = "returned"
    /\ css_str \in SelectorTexts
    /\ Len(Parsed) = 2
    /\ Len(Parsed[1].selectors) = 2
    /\ Parsed[1].selectors[1] # Parsed[1].selectors[2]
    /\ Parsed[2].selectors # <<>>
    /\ Parsed[2].selectors # Parsed[1].selectors

(* ---------------- C29: no property without a name ----------------------- *)

\* C29: whenever the parser is where a property can be finished, in
\* BLOCK_PROP_VALUE, its buffer of the property name is not empty; and no
\* property of a rule of the sheet, and none of the rule being read, has an
\* empty name.
C29_NoEmptyPropertyName ==
    /\ parser.state = "BLOCK_PROP_VALUE" => parser.prop_name # <<>>
    /\ \A i \in 1..Len(NewSheet) : \A j \in 1..Len(NewSheet[i].properties) :
          NewSheet[i].properties[j].name # <<>>
    /\ \A j \in 1..Len(lists[parser.properties]) :
          lists[parser.properties][j].name # <<>>

\* The parser was in BLOCK_PROP_VALUE and finished, at the ";" that ends
\* the text, the first property of a block.
C29_Witness ==
    /\ pc = "loop"
    /\ it = Len(css_str)
    /\ it >= 1
    /\ css_str[it] = ";"
    /\ parser.state = "BLOCK"
    /\ Len(lists[parser.properties]) = 1

(* ---------------- C30: a parser used again ------------------------------ *)

\* The parser a first call of parse starts with (lines 205-217, 318).
FirstCall == _reset_everything(CssParser_init).self

\* C30: on a parser used for one call after another, whatever the earlier
\* call left pending, every call returns a new sheet with the contents a
\* new parser returns for the text, and no step of a later call changes the
\* sheet the call before returned.
C30_ReusedParserIsFresh ==
    [][/\ parsed # 0 => SheetIn(lists', parsed) = SheetIn(lists, parsed)
       /\ (pc = "loop" /\ pc' = "returned") =>
             /\ parsed' # parsed
             /\ SheetIn(lists', parsed') = from_str(css_str)]_vars

\* The second call on a parser returned a sheet with a rule, after a first
\* call that returned an empty sheet and left selectors pending.
C30_Witness ==
    /\ calls = 2
    /\ pc = "returned"
    /\ lists[FirstCall.new_sheet] = <<>>
    /\ lists[FirstCall.selectors] # <<>>
    /\ parsed # FirstCall.new_sheet
    /\ Parsed # <<>>

(* ---------------- C24: the references of the Combined text -------------- *)

\* The names of a selector-list as texts.
NamesAsText(selectors) == [k \in 1..Len(selectors) |-> Chars(selectors[k])]

\* The property of the rule with the selectors is written as a reference,
\* name: var(--prefix-selectors-name), in the line of its rule.
Referenced(selectors, prop, line) ==
    Occurs(Chars(prop.name) \o <<":", " ", "v", "a", "r", "(">>
           \o ExpectedName(MainPrefix, NamesAsText(selectors),
                           Chars(prop.name))
           \o <<")">>,
           line)

\* The text of variables declares --prefix-selectors-name.
Declared(selectors, prop, text) ==
    Occurs(ExpectedName(MainPrefix, NamesAsText(selectors),
                        Chars(prop.name))
           \o <<":", " ">>,
           text)

\* C24: in the three texts main writes, every property of the Combined
\* sheet that is written as a var() reference has its (selector-list, name)
\* key in VarsLight and in VarsDark and is declared in both texts of
\* variables, and every property the two themes share is written with its
\* literal value.
C24_ReferencesDeclaredSharedLiteral ==
    (call = "main" /\ ~raised) =>
        LET v == Contents(frame.combined)
            lines == Lines(ret[3])
        IN  /\ Len(lines) = Len(v)
            /\ \A i \in 1..Len(v) : \A j \in 1..Len(v[i].properties) :
                  LET prop == v[i].properties[j]
                      key == <<v[i].selectors, prop.name>>
                  IN  /\ Referenced(v[i].selectors, prop, lines[i]) =>
                            /\ key \in KeysOf(Pairs(frame.sheet_vars_l))
                            /\ key \in KeysOf(Pairs(frame.sheet_vars_d))
                            /\ Declared(v[i].selectors, prop, ret[1])
                            /\ Declared(v[i].selectors, prop, ret[2])
                      /\ <<v[i].selectors, prop.name, prop.value>> \in PairsA \cap PairsB =>
                            Occurs(Chars(prop.name) \o <<":", " ">> \o Chars(prop.value),
                                   lines[i])

(* ---------------- C21: calls in parallel threads ------------------------ *)

\* What the operator returns when nothing else runs: on a heap that holds
\* its two operands only.
Alone(kind, a, b) ==
    LET x == build_sheet(EmptyHeap, a)
        y == build_sheet(x.h, b)
    IN  CASE kind = "__and__" ->
               LET r == __and__(y.h, x.ret, y.ret)
               IN  [raised |-> FALSE, rules |-> RulesOf(r.h, r.ret)]
          [] kind = "__sub__" ->
               LET r == __sub__(y.h, x.ret, y.ret)
               IN  [raised |-> FALSE, rules |-> RulesOf(r.h, r.ret)]
          [] kind = "__add__" ->
               LET r == __add__(y.h, x.ret, y.ret)
               IN  [raised |-> r.raised,
                    rules |-> IF r.raised THEN <<>> ELSE RulesOf(r.h, r.ret)]
          [] kind = "__or__" ->
               LET r == __or__(y.h, x.ret, y.ret)
               IN  [raised |-> r.raised,
                    rules |-> IF r.raised THEN <<>> ELSE RulesOf(r.h, r.ret)]

\* C21: under every interleaving of the steps of two threads, each running
\* from_str or an operator on inputs of its own, a call that returned has
\* returned, and keeps, the result the call gives when it runs alone, and a
\* call raised only if it raises when it runs alone.
C21_ThreadsDoNotInterfere ==
    \A t \in DOMAIN threads :
        LET th == threads[t] IN
        /\ (th.pc = "returned" /\ th.kind = "from_str") =>
              SheetIn(lists, th.result) = from_str(th.css_str)
        /\ (th.pc = "returned" /\ th.kind \in Operators) =>
              /\ ~Alone(th.kind, th.a, th.b).raised
              /\ RulesOf(Heap, th.result) = Alone(th.kind, th.a, th.b).rules
        /\ th.pc = "raised" =>
              /\ th.kind \in Operators
              /\ Alone(th.kind, th.a, th.b).raised

\* Two calls of from_str returned rules after running at the same time:
\* the first thread made its parser before the second did and finished a
\* rule after that.
C21_Witness ==
    /\ threads # <<>>
    /\ \A t \in Threads :
          /\ threads[t].kind = "from_str"
          /\ threads[t].pc = "returned"
          /\ lists[threads[t].result] # <<>>
    /\ parsers[threads[1].parser].new_sheet < parsers[threads[2].parser].new_sheet
    /\ parsers[threads[1].parser].selectors > parsers[threads[2].parser].new_sheet
    /\ threads[1].css_str # threads[2].css_str

====
